---- MODULE Spec2Model ----
(***************************************************************************)
(* sizeCounter.py: walk the tree below ".", open every file whose name     *)
(* ends with ".cs", read its first 20 characters, and when they contain    *)
(* "///Countable" add the file's st_size to a running total and print one  *)
(* line with the file's size and the total, both in KiB with two           *)
(* significant figures.                                                    *)
(*                                                                         *)
(* Text is modelled as sequences of one-character strings.                 *)
(***************************************************************************)
EXTENDS Integers, Sequences, FiniteSets, TLC

\* The largest number of files in the scanned tree.
MaxFiles == 2

----------------------------------------------------------------------------
\* Literals of the program.

\* The suffix without its dot.
ExtNoDot == <<"c", "s">>

\* ".cs", the suffix of file.endswith(".cs")
Ext == <<".", "c", "s">>

\* r"///Countable"
Marker == <<"/", "/", "/", "C", "o", "u", "n", "t", "a", "b", "l", "e">>

\* the 20 of f.read(20)
ReadLen == 20

\* the 1024 of stats.st_size / 1024 and size / 1024
KiB == 1024

\* the 2 of the format specification :.2g
Precision == 2

\* os.sep, the separator os.path.join puts between its parts
Sep == <<"/">>

\* ".", the top of os.walk(".")
Top == <<".">>

----------------------------------------------------------------------------
\* Built-in string operations the program uses.

Min(a, b) == IF a < b THEN a ELSE b

\* s.endswith(suf)
EndsWith(s, suf) ==
    /\ Len(suf) <= Len(s)
    /\ SubSeq(s, Len(s) - Len(suf) + 1, Len(s)) = suf

\* sub in s, for strings
Contains(sub, s) ==
    \E i \in 0..(Len(s) - Len(sub)) : SubSeq(s, i + 1, i + Len(sub)) = sub

\* os.path.join(a, b) for a relative b
Join(a, b) == a \o Sep \o b

\* The filter of line 7 with every name passing it.
IsCandidateNoFilter(file) == TRUE

\* file.endswith(".cs")
IsCandidate(file) == EndsWith(file, Ext)

\* The test of line 10 looking for the marker at the start of the text only.
CountableStartsWith(data) == SubSeq(data, 1, Min(Len(Marker), Len(data))) = Marker

\* r"///Countable" in data, for the data f.read(20) returned
Countable(data) == Contains(Marker, data)

\* The update of line 12 overwriting the total.
AccumulateOverwrite(total, st_size) == st_size

\* size + stats.st_size
Accumulate(total, st_size) == total + st_size

----------------------------------------------------------------------------
\* The format specification :.2g applied to bytes / 1024.

Digit(d) == CASE d = 0 -> "0" [] d = 1 -> "1" [] d = 2 -> "2" [] d = 3 -> "3"
              [] d = 4 -> "4" [] d = 5 -> "5" [] d = 6 -> "6" [] d = 7 -> "7"
              [] d = 8 -> "8" [] d = 9 -> "9"

RECURSIVE Pow10(_)
Pow10(e) == IF e = 0 THEN 1 ELSE 10 * Pow10(e - 1)

RECURSIVE Zeros(_)
Zeros(k) == IF k <= 0 THEN <<>> ELSE <<"0">> \o Zeros(k - 1)

\* The decimal digits of a natural number.
RECURSIVE Digits(_)
Digits(m) == IF m < 10 THEN <<Digit(m)>> ELSE Digits(m \div 10) \o <<Digit(m % 10)>>

\* num / den rounded to the nearest integer, ties to the even one.
RoundHalfEven(num, den) ==
    LET q == num \div den
        r == num % den
    IN  IF 2 * r < den THEN q
        ELSE IF 2 * r > den THEN q + 1
        ELSE IF q % 2 = 0 THEN q ELSE q + 1

\* The decimal exponent of num / den, a positive rational: the X with
\* 10^X <= num / den < 10^(X + 1).
RECURSIVE ExpUp(_, _, _)
ExpUp(num, den, x) ==
    IF num >= den * Pow10(x + 1) THEN ExpUp(num, den, x + 1) ELSE x

RECURSIVE ExpDown(_, _, _)
ExpDown(num, den, x) ==
    IF num * Pow10(x) >= den THEN -x ELSE ExpDown(num, den, x + 1)

Exponent(num, den) ==
    IF num >= den THEN ExpUp(num, den, 0) ELSE ExpDown(num, den, 1)

\* num / den scaled to Precision digits before the point and rounded.
Mantissa(num, den, x) ==
    LET shift == Precision - 1 - x
    IN  IF shift >= 0 THEN RoundHalfEven(num * Pow10(shift), den)
        ELSE RoundHalfEven(num, den * Pow10(-shift))

\* The digits of a mantissa without its trailing zeros (at least one stays).
RECURSIVE StripZeros(_)
StripZeros(ds) ==
    IF Len(ds) > 1 /\ ds[Len(ds)] = "0" THEN StripZeros(SubSeq(ds, 1, Len(ds) - 1))
    ELSE ds

\* The mantissa m (Precision digits) at decimal exponent x, in fixed notation.
Fixed(m, x) ==
    LET ds == Digits(m)
    IN  IF x >= Precision - 1 THEN ds \o Zeros(x - (Precision - 1))
        ELSE IF x >= 0
             THEN LET int  == SubSeq(ds, 1, x + 1)
                      frac == StripZeros(SubSeq(ds, x + 2, Len(ds)))
                  IN  IF frac = <<"0">> THEN int ELSE int \o <<".">> \o frac
             ELSE <<"0", ".">> \o Zeros(-x - 1) \o StripZeros(ds)

\* The same in exponent notation: d[.d]e+XX.
Scientific(m, x) ==
    LET ds   == Digits(m)
        frac == StripZeros(SubSeq(ds, 2, Len(ds)))
        ax   == IF x < 0 THEN -x ELSE x
        ex   == IF ax < 10 THEN <<"0">> \o Digits(ax) ELSE Digits(ax)
    IN  <<ds[1]>> \o (IF frac = <<"0">> THEN <<>> ELSE <<".">> \o frac)
        \o <<"e", IF x < 0 THEN "-" ELSE "+">> \o ex

\* f"{num / den :.2g}"
FormatG(num, den) ==
    IF num = 0 THEN <<"0">>
    ELSE LET x0 == Exponent(num, den)
             m0 == Mantissa(num, den, x0)
             up == m0 = Pow10(Precision)
             m  == IF up THEN Pow10(Precision - 1) ELSE m0
             x  == IF up THEN x0 + 1 ELSE x0
         IN  IF x < -4 \/ x >= Precision THEN Scientific(m, x) ELSE Fixed(m, x)

\* The format with the divisor of a kilobyte.
KiBTextDecimal(bytes) == FormatG(bytes, 1000)

\* f"{bytes / 1024 :.2g}"
KiBText(bytes) == FormatG(bytes, KiB)

\* f"File {p}: {st_size / 1024 :.2g} KiB, so far at: {total / 1024 :.2g} KiB"
LineText(path, st_size, total) ==
    <<"F", "i", "l", "e", " ">> \o path \o <<":", " ">> \o KiBText(st_size)
    \o <<" ", "K", "i", "B", ",", " ", "s", "o", " ", "f", "a", "r", " ", "a", "t", ":", " ">>
    \o KiBText(total) \o <<" ", "K", "i", "B">>

----------------------------------------------------------------------------
\* The scanned tree.  A file is a path and what the file system holds for it:
\* its text, its size in bytes, and whether it can be opened and decoded.  The
\* text is nchars characters long: the marker at offset off when marked, and
\* the character pad everywhere else.

ACs  == <<"a", ".", "c", "s">>
BCs  == <<"b", ".", "c", "s">>
XTxt == <<"x", ".", "t", "x", "t">>
ACsNoDot == <<"a", "c", "s">>

\* The directories below the top, by name.
SubDirNames(dir) == IF dir = Top THEN {<<"d">>, <<"e">>} ELSE {}

Paths ==
    { [dir |-> Top, name |-> ACs], [dir |-> Top, name |-> BCs],
      [dir |-> Join(Top, <<"d">>), name |-> XTxt],
      [dir |-> Join(Top, <<"e">>), name |-> ACs],
      [dir |-> Join(Top, <<"e">>), name |-> ACsNoDot] }

Texts ==
    { [pad |-> "x", marked |-> TRUE,  off |-> 0,  nchars |-> 10240, st_size |-> 10240],
      [pad |-> "x", marked |-> TRUE,  off |-> 0,  nchars |-> 5120,  st_size |-> 5120],
      [pad |-> "/", marked |-> TRUE,  off |-> 8,  nchars |-> 20,    st_size |-> 24],
      [pad |-> "/", marked |-> TRUE,  off |-> 9,  nchars |-> 32,    st_size |-> 32],
      [pad |-> "x", marked |-> TRUE,  off |-> 20, nchars |-> 40,    st_size |-> 40],
      [pad |-> "x", marked |-> TRUE,  off |-> 0,  nchars |-> 5,     st_size |-> 5],
      [pad |-> "x", marked |-> FALSE, off |-> 0,  nchars |-> 30,    st_size |-> 30] }

Files == { [text |-> t, readable |-> r] : t \in Texts, r \in BOOLEAN }

Trees ==
    UNION { [S -> Files] : S \in { T \in SUBSET Paths : Cardinality(T) <= MaxFiles } }

\* The character at position i (from 1) of a file's text.
CharAt(f, i) ==
    IF f.text.marked /\ f.text.off < i /\ i <= f.text.off + Len(Marker)
    THEN Marker[i - f.text.off]
    ELSE f.text.pad

\* f.read(n) returning one character more than asked for.
ReadOneMore(f, n) == [i \in 1..Min(n + 1, f.text.nchars) |-> CharAt(f, i)]

\* f.read(n) on a file just opened in text mode: at most n characters.
Read(f, n) == [i \in 1..Min(n, f.text.nchars) |-> CharAt(f, i)]

\* The orders in which a directory listing can come back.
Orders(S) ==
    { s \in [1..Cardinality(S) -> S] : \A i, j \in 1..Cardinality(S) : s[i] = s[j] => i = j }

----------------------------------------------------------------------------
VARIABLES
    tree,       \* the files below ".", by path
    stack,      \* os.walk: the directories still to list
    dirpath,    \* the directory of the current os.walk triple
    filenames,  \* the names of that triple the inner loop has not reached
    file,       \* the inner loop's variable
    handle,     \* the files open
    size,       \* the running total, in bytes
    stats,      \* st_size of the last os.stat
    stdout,     \* the lines printed
    pc,         \* walk, files, open, read, stat, print, done, error
    visited,    \* history: the paths the inner loop has reached, in order
    opened,     \* history: the paths given to open()
    stated,     \* history: the paths given to os.stat()
    counted,    \* history: per line printed, the path, its st_size and the total
    err         \* history: the call that raised, and the path it was given

vars == <<tree, stack, dirpath, filenames, file, handle, size, stats, stdout, pc,
          visited, opened, stated, counted, err>>

NoErr == [op |-> "none", path |-> <<>>]

\* The path of the current file, as the tree knows it.
Cur == [dir |-> dirpath, name |-> file]

\* p = os.path.join(dirpath, file)
P == Join(dirpath, file)

Init ==
    /\ tree \in Trees
    /\ stack = <<Top>>
    /\ dirpath = <<>>
    /\ filenames = <<>>
    /\ file = <<>>
    /\ handle = {}
    /\ size = 0
    /\ stats = 0
    /\ stdout = <<>>
    /\ pc = "walk"
    /\ visited = <<>>
    /\ opened = {}
    /\ stated = {}
    /\ counted = <<>>
    /\ err = NoErr

\* The exception of a call leaves the with block, which closes the file, and
\* ends the program, since nothing catches it.  This one is caught by an
\* except clause around the body of the inner loop, which goes on.
RaiseSwallowed(op) ==
    /\ pc' = "files"
    /\ handle' = {}
    /\ stdout' = stdout
    /\ err' = [op |-> op, path |-> Cur]

\* The same without the with block: the file stays open.
RaiseLeaking(op) ==
    /\ pc' = "error"
    /\ handle' = handle
    /\ stdout' = stdout
    /\ err' = [op |-> op, path |-> Cur]

\* The same with the lines collected and printed after the loop only.
RaiseUnreported(op) ==
    /\ pc' = "error"
    /\ handle' = {}
    /\ stdout' = <<>>
    /\ err' = [op |-> op, path |-> Cur]

\* An exception raised by op on the current file: __exit__ of the with block
\* closes the file when it is open, and the uncaught exception ends the run.
\* What was printed stays printed.
Raise(op) ==
    /\ pc' = "error"
    /\ handle' = {}
    /\ stdout' = stdout
    /\ err' = [op |-> op, path |-> Cur]

\* os.walk(".") yields the next directory: its files and its subdirectories,
\* each in the order the file system lists them, the subdirectories next.
WalkDir ==
    /\ pc = "walk"
    /\ stack # <<>>
    /\ LET top == Head(stack)
       IN  /\ dirpath' = top
           /\ \E names \in Orders({ q.name : q \in { r \in DOMAIN tree : r.dir = top } }) :
                filenames' = names
           /\ \E subs \in Orders({ Join(top, d) : d \in SubDirNames(top) }) :
                stack' = subs \o Tail(stack)
    /\ pc' = "files"
    /\ UNCHANGED <<tree, file, handle, size, stats, stdout, visited, opened, stated,
                   counted, err>>

\* os.walk is exhausted: the program ends.
WalkEnd ==
    /\ pc = "walk"
    /\ stack = <<>>
    /\ pc' = "done"
    /\ UNCHANGED <<tree, stack, dirpath, filenames, file, handle, size, stats, stdout,
                   visited, opened, stated, counted, err>>

\* The inner loop is through the names of the directory.
FilesEnd ==
    /\ pc = "files"
    /\ filenames = <<>>
    /\ pc' = "walk"
    /\ UNCHANGED <<tree, stack, dirpath, filenames, file, handle, size, stats, stdout,
                   visited, opened, stated, counted, err>>

\* for file in filenames, with file.endswith(".cs") false: the next name.
SkipFile ==
    /\ pc = "files"
    /\ filenames # <<>>
    /\ ~IsCandidate(Head(filenames))
    /\ file' = Head(filenames)
    /\ filenames' = Tail(filenames)
    /\ visited' = Append(visited, [dir |-> dirpath, name |-> Head(filenames)])
    /\ UNCHANGED <<tree, stack, dirpath, handle, size, stats, stdout, pc, opened, stated,
                   counted, err>>

\* for file in filenames, with file.endswith(".cs") true: on to open(p, "r").
PickFile ==
    /\ pc = "files"
    /\ filenames # <<>>
    /\ IsCandidate(Head(filenames))
    /\ file' = Head(filenames)
    /\ filenames' = Tail(filenames)
    /\ visited' = Append(visited, [dir |-> dirpath, name |-> Head(filenames)])
    /\ pc' = "open"
    /\ UNCHANGED <<tree, stack, dirpath, handle, size, stats, stdout, opened, stated,
                   counted, err>>

\* open(p, "r") returns a file object.  (A file that cannot be decoded opens.)
OpenOk ==
    /\ pc = "open"
    /\ handle' = handle \cup {Cur}
    /\ opened' = opened \cup {Cur}
    /\ pc' = "read"
    /\ UNCHANGED <<tree, stack, dirpath, filenames, file, size, stats, stdout, visited,
                   stated, counted, err>>

\* open(p, "r") raises (no permission).
OpenFail ==
    /\ pc = "open"
    /\ ~tree[Cur].readable
    /\ opened' = opened \cup {Cur}
    /\ Raise("open")
    /\ UNCHANGED <<tree, stack, dirpath, filenames, file, size, stats, visited,
                   stated, counted>>

\* f.read(20) raises (an I/O error, or bytes that do not decode).
ReadFail ==
    /\ pc = "read"
    /\ ~tree[Cur].readable
    /\ Raise("read")
    /\ UNCHANGED <<tree, stack, dirpath, filenames, file, size, stats, visited,
                   opened, stated, counted>>

\* The marker is not in f.read(20): the with block ends, the file is closed.
ReadNoMatch ==
    /\ pc = "read"
    /\ tree[Cur].readable
    /\ ~Countable(Read(tree[Cur], ReadLen))
    /\ handle' = handle \ {Cur}
    /\ pc' = "files"
    /\ UNCHANGED <<tree, stack, dirpath, filenames, file, size, stats, stdout, visited,
                   opened, stated, counted, err>>

\* The marker is in f.read(20): on to os.stat(p).
ReadMatch ==
    /\ pc = "read"
    /\ tree[Cur].readable
    /\ Countable(Read(tree[Cur], ReadLen))
    /\ pc' = "stat"
    /\ UNCHANGED <<tree, stack, dirpath, filenames, file, handle, size, stats, stdout,
                   visited, opened, stated, counted, err>>

\* stats = os.stat(p); size = size + stats.st_size
StatOk ==
    /\ pc = "stat"
    /\ stated' = stated \cup {Cur}
    /\ stats' = tree[Cur].text.st_size
    /\ size' = Accumulate(size, tree[Cur].text.st_size)
    /\ pc' = "print"
    /\ UNCHANGED <<tree, stack, dirpath, filenames, file, handle, stdout, visited, opened,
                   counted, err>>

\* os.stat(p) raises (the file went away after it was opened).
StatFail ==
    /\ pc = "stat"
    /\ stated' = stated \cup {Cur}
    /\ Raise("stat")
    /\ UNCHANGED <<tree, stack, dirpath, filenames, file, size, stats, visited,
                   opened, counted>>

\* print(...) writes the line; the with block ends, the file is closed.
PrintOk ==
    /\ pc = "print"
    /\ stdout' = Append(stdout, LineText(P, stats, size))
    /\ counted' = Append(counted, [path |-> Cur, st_size |-> stats, total |-> size])
    /\ handle' = handle \ {Cur}
    /\ pc' = "files"
    /\ UNCHANGED <<tree, stack, dirpath, filenames, file, size, stats, visited, opened,
                   stated, err>>

\* print(...) raises (standard output is closed).
PrintFail ==
    /\ pc = "print"
    /\ Raise("print")
    /\ UNCHANGED <<tree, stack, dirpath, filenames, file, size, stats, visited,
                   opened, stated, counted>>

Next ==
    \/ WalkDir
    \/ WalkEnd
    \/ FilesEnd
    \/ SkipFile
    \/ PickFile
    \/ OpenOk
    \/ OpenFail
    \/ ReadFail
    \/ ReadNoMatch
    \/ ReadMatch
    \/ StatOk
    \/ StatFail
    \/ PrintOk
    \/ PrintFail

Spec == Init /\ [][Next]_vars

----------------------------------------------------------------------------
\* What the properties are stated in: the files of the tree by what the file
\* system holds, not by what the program computed.

\* The name's last three characters are ".cs".
IsCs(name) ==
    /\ Len(name) >= 3
    /\ name[Len(name) - 2] = "."
    /\ name[Len(name) - 1] = "c"
    /\ name[Len(name)] = "s"

\* The whole marker stands in the file's text from offset k (from 0) on.
MarkerAtOffset(f, k) ==
    /\ k + 12 <= f.text.nchars
    /\ CharAt(f, k + 1) = "/" /\ CharAt(f, k + 2) = "/" /\ CharAt(f, k + 3) = "/"
    /\ CharAt(f, k + 4) = "C" /\ CharAt(f, k + 5) = "o" /\ CharAt(f, k + 6) = "u"
    /\ CharAt(f, k + 7) = "n" /\ CharAt(f, k + 8) = "t" /\ CharAt(f, k + 9) = "a"
    /\ CharAt(f, k + 10) = "b" /\ CharAt(f, k + 11) = "l" /\ CharAt(f, k + 12) = "e"

\* The marker lies entirely within the first 20 characters.
MarkerInPrefix(f) == \E k \in 0..8 : MarkerAtOffset(f, k)

\* The marker is somewhere in the text, but not within the first 20 characters.
MarkerOnlyBeyondPrefix(f) ==
    /\ \E k \in 9..40 : MarkerAtOffset(f, k)
    /\ ~MarkerInPrefix(f)

CountableFiles == { q \in DOMAIN tree : IsCs(q.name) /\ MarkerInPrefix(tree[q]) }

RECURSIVE SumSizes(_)
SumSizes(S) ==
    IF S = {} THEN 0
    ELSE LET q == CHOOSE x \in S : TRUE IN tree[q].text.st_size + SumSizes(S \ {q})

VisitedSet == { visited[i] : i \in 1..Len(visited) }
CountedPaths == { counted[i].path : i \in 1..Len(counted) }

\* The file the inner loop is at is still being handled, or failed.
InFlight == pc \in {"open", "read", "stat", "print", "error"}

\* The files the inner loop is through with.
Processed == IF InFlight THEN VisitedSet \ {Cur} ELSE VisitedSet

\* The paths whose st_size has been added to the total.
Added == CountedPaths \cup (IF pc = "print" \/ err.op = "print" THEN {Cur} ELSE {})

\* The total of the last line printed, 0 with no line.
LastTotal == IF counted = <<>> THEN 0 ELSE counted[Len(counted)].total

StartsWith(s, pre) == Len(pre) <= Len(s) /\ SubSeq(s, 1, Len(pre)) = pre

\* The line is the line of the file at path q.
Names(line, q) ==
    StartsWith(line, <<"F", "i", "l", "e", " ">> \o q.dir \o <<"/">> \o q.name \o <<":", " ">>)

----------------------------------------------------------------------------
\* C1: when the traversal ends, the total (the one of the last line printed,
\* or 0 with no line) is the sum of the sizes of exactly the files whose name
\* ends with ".cs" and whose first 20 characters hold the marker, each counted
\* once, whatever the order of the traversal.
TotalIsSumOfCountable ==
    pc = "done" =>
        /\ size = SumSizes(CountableFiles)
        /\ LastTotal = size
        /\ CountedPaths = CountableFiles
        /\ Len(counted) = Cardinality(CountableFiles)

TotalIsSumOfCountableWitness ==
    /\ pc = "done"
    /\ Cardinality(CountableFiles) = 2
    /\ size = 10240 + 24

\* C2: a ".cs" file is counted when the marker lies entirely within its first
\* 20 characters (offset 0 to 8), and is not counted when the marker starts at
\* offset 9 or later or the file is shorter than the marker.
MarkerWithinPrefixDecides ==
    \A q \in DOMAIN tree :
        IsCs(q.name) =>
            /\ (q \in Processed /\ MarkerInPrefix(tree[q])) => q \in CountedPaths
            /\ (MarkerOnlyBeyondPrefix(tree[q]) \/ tree[q].text.nchars < 12) =>
                   q \notin CountedPaths /\ q \notin stated

MarkerWithinPrefixDecidesWitness ==
    /\ pc = "done"
    /\ \E q \in CountedPaths : MarkerAtOffset(tree[q], 8)
    /\ \E q \in Processed \ CountedPaths :
          IsCs(q.name) /\ MarkerAtOffset(tree[q], 9)

\* C3: a file whose name does not end with ".cs" is never counted: it adds
\* nothing to the total and no line names it, also with the marker in its
\* first 20 characters.
OtherExtensionNeverCounted ==
    /\ size = SumSizes(Added)
    /\ \A q \in DOMAIN tree :
          ~IsCs(q.name) =>
              /\ q \notin Added
              /\ q \notin CountedPaths
              /\ \A i \in 1..Len(stdout) : ~Names(stdout[i], q)

OtherExtensionNeverCountedWitness ==
    /\ pc = "done"
    /\ \E q \in Processed : ~IsCs(q.name) /\ MarkerInPrefix(tree[q]) /\ tree[q].readable
    /\ Len(stdout) = 1

\* C4: the running total never goes down, from step to step and from each
\* line printed to the next.
RunningTotalMonotone ==
    [][/\ size' >= size
       /\ \A i \in 1..(Len(counted') - 1) : counted'[i].total <= counted'[i + 1].total]_vars

RunningTotalMonotoneWitness ==
    /\ Len(counted) = 2
    /\ counted[1].st_size > counted[2].st_size
    /\ counted[1].total < counted[2].total

\* C5: one line per matching file and nothing else: the number of lines is
\* the number of countable files handled so far, every line is the line of a
\* countable file, and a tree of ".cs" files without the marker gives no
\* output and a total of 0.
OneLinePerMatch ==
    /\ Len(stdout) = Cardinality(Processed \cap CountableFiles)
    /\ \A i \in 1..Len(stdout) : \E q \in CountableFiles : Names(stdout[i], q)
    /\ \A q \in Processed \ CountableFiles : \A i \in 1..Len(stdout) : ~Names(stdout[i], q)
    /\ (pc = "done" /\ \A q \in DOMAIN tree : IsCs(q.name) /\ ~MarkerInPrefix(tree[q]))
           => stdout = <<>> /\ size = 0

OneLinePerMatchWitness ==
    /\ pc = "done"
    /\ Len(stdout) = 1
    /\ \E q \in CountableFiles : tree[q].text.off = 8
    /\ \E q \in Processed : IsCs(q.name) /\ ~MarkerInPrefix(tree[q])

\* C6: an error of open, read or stat on a ".cs" file ends the run at once:
\* the step that raises leaves the total and the output as they were and puts
\* the run in the error state, from which nothing more happens (no later file
\* is opened, no line is printed, no retry).
FailFast ==
    [][/\ pc = "error" => FALSE
       /\ err' # NoErr =>
             /\ pc' = "error"
             /\ err'.path = [dir |-> dirpath, name |-> file]
             /\ stdout' = stdout
             /\ opened' \subseteq opened \cup {err'.path}
             /\ err'.op \in {"open", "read", "stat"} => size' = size]_vars

FailFastWitness ==
    /\ pc = "error"
    /\ err.op = "read"
    /\ filenames # <<>>
    /\ IsCs(Head(filenames))
    /\ tree[[dir |-> dirpath, name |-> Head(filenames)]].readable

\* C7 as claimed: a run that ends in the error state has printed no line.
NoPartialReport == pc = "error" => stdout = <<>>

\* C7, amended: a run that ends in the error state has printed the lines of
\* the countable files traversed before the failing one, and no other.
PartialReportKept ==
    pc = "error" =>
        /\ Len(stdout) = Cardinality((VisitedSet \ {err.path}) \cap CountableFiles)
        /\ \A q \in (VisitedSet \ {err.path}) \cap CountableFiles :
              \E i \in 1..Len(stdout) : Names(stdout[i], q)
        /\ \A i \in 1..Len(stdout) : ~Names(stdout[i], err.path)

PartialReportKeptWitness ==
    /\ pc = "error"
    /\ Len(stdout) = 1
    /\ err.op \in {"open", "read"}

\* C8: at most one file is open at a time: none while the program is between
\* files or about to open one, the current one while it reads, stats and
\* prints, and none once the run has ended, normally or by an error.
OneHandleAtATime ==
    /\ Cardinality(handle) <= 1
    /\ pc \in {"walk", "files", "open", "done", "error"} => handle = {}
    /\ pc \in {"read", "stat", "print"} => handle = {Cur}

OneHandleAtATimeWitness ==
    /\ pc = "error"
    /\ err.op \in {"read", "stat", "print"}
    /\ err.path \in opened
    /\ handle = {}

\* The tree of the example: a.cs of 10240 bytes and b.cs of 5120 bytes in one
\* directory, both starting with the marker.
ExampleTree ==
    /\ DOMAIN tree = {[dir |-> Top, name |-> ACs], [dir |-> Top, name |-> BCs]}
    /\ tree[[dir |-> Top, name |-> ACs]].text.st_size = 10240
    /\ tree[[dir |-> Top, name |-> BCs]].text.st_size = 5120
    /\ \A q \in DOMAIN tree : MarkerAtOffset(tree[q], 0)

\* The line ends with the running total t.
HasTotal(line, t) ==
    EndsWith(line, <<",", " ", "s", "o", " ", "f", "a", "r", " ", "a", "t", ":", " ">> \o t \o <<" ", "K", "i", "B">>)

\* C9 as claimed: on the example the run prints two lines, with running
\* totals 10 KiB then 15 KiB, in either order of the two files.
ExampleTotalsTenThenFifteen ==
    (ExampleTree /\ pc = "done") =>
        /\ Len(stdout) = 2
        /\ HasTotal(stdout[1], <<"1", "0">>)
        /\ HasTotal(stdout[2], <<"1", "5">>)

\* C9, amended: on the example the run prints two lines in the format
\* "File <path>: <size> KiB, so far at: <total> KiB"; the second running
\* total is 15 KiB in either order, the first is 10 KiB with a.cs first and
\* 5 KiB with b.cs first.
ExampleLines ==
    (ExampleTree /\ pc = "done") =>
        \/ stdout = << <<"F", "i", "l", "e", " ", ".", "/", "a", ".", "c", "s", ":", " ", "1", "0", " ", "K", "i", "B", ",", " ", "s", "o", " ", "f", "a", "r", " ", "a", "t", ":", " ", "1", "0", " ", "K", "i", "B">>,
                       <<"F", "i", "l", "e", " ", ".", "/", "b", ".", "c", "s", ":", " ", "5", " ", "K", "i", "B", ",", " ", "s", "o", " ", "f", "a", "r", " ", "a", "t", ":", " ", "1", "5", " ", "K", "i", "B">> >>
        \/ stdout = << <<"F", "i", "l", "e", " ", ".", "/", "b", ".", "c", "s", ":", " ", "5", " ", "K", "i", "B", ",", " ", "s", "o", " ", "f", "a", "r", " ", "a", "t", ":", " ", "5", " ", "K", "i", "B">>,
                       <<"F", "i", "l", "e", " ", ".", "/", "a", ".", "c", "s", ":", " ", "1", "0", " ", "K", "i", "B", ",", " ", "s", "o", " ", "f", "a", "r", " ", "a", "t", ":", " ", "1", "5", " ", "K", "i", "B">> >>

ExampleLinesWitness ==
    /\ ExampleTree
    /\ pc = "done"
    /\ visited[1].name = BCs

\* C10: a file whose name does not end with ".cs" is never opened or stat-ed,
\* so it never is the file the run fails on, readable or not; every ".cs"
\* file the loop reaches is opened, with or without the marker, so a run that
\* ends normally has opened every ".cs" file and found each readable.
OnlyCandidatesTouched ==
    /\ \A q \in opened \cup stated \cup handle : IsCs(q.name)
    /\ err # NoErr => IsCs(err.path.name)
    /\ \A q \in Processed : IsCs(q.name) => q \in opened
    /\ pc = "done" =>
          \A q \in DOMAIN tree : IsCs(q.name) => q \in opened /\ tree[q].readable

OnlyCandidatesTouchedWitness ==
    /\ pc = "done"
    /\ \E q \in Processed : ~IsCs(q.name) /\ ~tree[q].readable
    /\ \E q \in opened : ~MarkerInPrefix(tree[q])

====
